---- MODULE Spec2Model ----
(***************************************************************************)
(* Face-enrollment / face-login web service (webapp_new.py).               *)
(*                                                                         *)
(* The relational store (users, user_images, embeddings), the blob store   *)
(* and the process-wide _HAS_VECTOR cache are the state.  One request is   *)
(* in flight at a time; a handler that uses several transactions is split  *)
(* at its transaction boundaries (pc), so that every action is one         *)
(* transaction together with the code around it.                           *)
(*                                                                         *)
(* Encodings are points on a line, one grid step = 0.5 distance units, so  *)
(* the Euclidean distance of two encodings is the absolute difference.     *)
(*                                                                         *)
(* Further specifications: SpecOwner (the owner-only GET / PUT / DELETE    *)
(* handlers), SpecDetect (the threads of one process inside                *)
(* _detect_vector_type) and SpecAttendance (the recognition loops of       *)
(* main_supabase.py with their in-memory throttle).                        *)
(***************************************************************************)
EXTENDS Integers, Sequences, FiniteSets, TLC

\* ------------------------------------------------------------------ bounds
MaxRequests == 2
MaxEnc == 2
\* worker threads that call _detect_vector_type, and calls per worker
MaxWorkers == 2
MaxCalls == 2
\* main_loop processes running against one database
MaxInstances == 2
\* the clock stops here
MaxTime == 148
MaxKnown == 2
MaxFaces == 2

None == "None"
Handles == {"ali", "bob"}
Encodings == 0..MaxEnc

\* display_name together with the profile columns the upsert overwrites
ProfileInputs == { [display_name |-> "A", email |-> "a@x"],
                   [display_name |-> "B", email |-> "b@x"] }

\* ------------------------------------------------------------------ images
\* What the face_recognition library does on an image: every detector call
\* either raises or returns the list of face regions (a region is named by
\* the encoding the encoder computes for it).
Finds(regions) == [raises |-> FALSE, regions |-> regions]
Raises == [raises |-> TRUE, regions |-> <<>>]
FaceImg(e) == [decodes |-> TRUE, hog |-> Finds(<<e>>), dflt |-> Finds(<<e>>), cnn |-> Finds(<<e>>), encoder |-> "ok"]
HardFaceImg(e) == [decodes |-> TRUE, hog |-> Finds(<<>>), dflt |-> Finds(<<>>), cnn |-> Finds(<<e>>), encoder |-> "ok"]
NoFaceImg == [decodes |-> TRUE, hog |-> Finds(<<>>), dflt |-> Finds(<<>>), cnn |-> Finds(<<>>), encoder |-> "ok"]
CorruptImg == [decodes |-> FALSE, hog |-> Finds(<<>>), dflt |-> Finds(<<>>), cnn |-> Finds(<<>>), encoder |-> "ok"]

EnrollImages == {FaceImg(0), NoFaceImg, CorruptImg}
SeedImages == {FaceImg(0), HardFaceImg(1)}
LoginImages == {FaceImg(e) : e \in Encodings} \cup {NoFaceImg, CorruptImg}

\* face_recognition.face_locations with a fallback to the default call
Locate(stage, img) ==
    IF ~stage.raises THEN stage.regions
    ELSE IF ~img.dflt.raises THEN img.dflt.regions ELSE <<>>

\* face_recognition.face_encodings: one encoding per location; a TypeError of
\* the keyword call is answered by the positional call, any other exception
\* by no encodings
Encoders == {"ok", "type_error", "type_error_raise", "raise"}
Encode(img, locations) == IF img.encoder \in {"ok", "type_error"} THEN locations ELSE <<>>

\* the encoding of the last region instead of the first
compute_face_encoding_last(img, importOk) ==
    IF ~importOk THEN [kind |-> "raise", vec |-> 0]
    ELSE LET first == Locate(img.hog, img)
             locations == IF first = <<>> THEN Locate(img.cnn, img) ELSE first
             encodings == Encode(img, locations)
         IN  IF locations = <<>> THEN [kind |-> "none", vec |-> 0]
             ELSE IF encodings = <<>> THEN [kind |-> "none", vec |-> 0]
             ELSE [kind |-> "enc", vec |-> encodings[Len(encodings)]]

\* compute_face_encoding: [kind |-> "raise"], [kind |-> "none"] or
\* [kind |-> "enc", vec |-> e]
compute_face_encoding(img, importOk) ==
    IF ~importOk THEN [kind |-> "raise", vec |-> 0]
    ELSE LET first == Locate(img.hog, img)
             locations == IF first = <<>> THEN Locate(img.cnn, img) ELSE first
             encodings == Encode(img, locations)
         IN  IF locations = <<>> THEN [kind |-> "none", vec |-> 0]
             ELSE IF encodings = <<>> THEN [kind |-> "none", vec |-> 0]
             ELSE [kind |-> "enc", vec |-> encodings[1]]

\* the calls into face_recognition that one call of compute_face_encoding
\* makes, in order
StagesRun(img) ==
    LET first == Locate(img.hog, img)
        locations == IF first = <<>> THEN Locate(img.cnn, img) ELSE first
    IN  (IF img.hog.raises THEN <<"hog", "default">> ELSE <<"hog">>)
        \o (IF first # <<>> THEN <<>>
            ELSE IF img.cnn.raises THEN <<"cnn", "default">> ELSE <<"cnn">>)
        \o (IF locations = <<>> THEN <<>>
            ELSE IF img.encoder \in {"type_error", "type_error_raise"}
            THEN <<"encode", "encode_positional">>
            ELSE <<"encode">>)

\* what a detector stage can answer, and the images built from the answers
StageOutcomes == {Raises, Finds(<<>>), Finds(<<MaxEnc, 0>>)} \cup {Finds(<<e>>) : e \in Encodings}
StageImages == [decodes : {TRUE}, hog : StageOutcomes, dflt : StageOutcomes,
                cnn : StageOutcomes, encoder : Encoders]

\* ------------------------------------------------------------------ state
VARIABLES
    users,          \* public.users: id -> row
    images,         \* public.user_images: set of rows
    embeddings,     \* public.embeddings: set of rows
    blobs,          \* storage bucket: set of paths
    pg_vector,      \* the database has the pgvector type installed
    has_vector,     \* _HAS_VECTOR: NotProbed (None) or Cached(TRUE / FALSE)
    pc,             \* position of the request in flight
    cur,            \* locals of the request in flight
    nreq,           \* number of requests started; request n draws its new ids
                    \* (uuid4, serial columns) from n
    resp,           \* the response of the request in flight
    trace,          \* the steps the request in flight has performed
    workers,        \* per worker: its position inside _detect_vector_type
    returned,       \* some call of _detect_vector_type has returned
    now,            \* time.time(), in seconds
    attendance_log, \* table attendance_log: set of entries
    last_attendance_time, \* users.last_attendance_time: user -> time
    last_seen,      \* per main_loop instance: its last_seen dict
    event,          \* the latest recognition an instance handled
    frac,           \* the half second of the clock: the time is now + frac/2
    total_attendance, \* users.total_attendance: user -> count
    checkers,       \* per worker: its position in check, log, update
    completed,      \* instant at which the latest update_attendance completed
    encode_list_known, \* main_supabase: the encodings loaded at start
    user_ids,       \* main_supabase: their owners, index by index
    results         \* what the latest recognize_once returned

detectVars == <<workers, returned>>
checkVars == <<frac, total_attendance, checkers, completed>>
recVars == <<encode_list_known, user_ids, results>>
attVars == <<now, attendance_log, last_attendance_time, last_seen, event, checkVars, recVars>>
webVars == <<users, images, embeddings, blobs, pc, cur, resp, trace, nreq>>

vars == <<users, images, embeddings, blobs, pg_vector, has_vector,
          pc, cur, resp, trace, nreq, detectVars, attVars>>

\* ------------------------------------------------------------------ responses
NoResp == [kind |-> "none", ok |-> FALSE, status |-> 0, error |-> None, keys |-> {}, user_id |-> 0,
           removed |-> {}]
Json(ok, status, error, keys) ==
    [kind |-> "json", ok |-> ok, status |-> status, error |-> error, keys |-> keys, user_id |-> 0,
     removed |-> {}]
\* an exception that no handler catches: the framework's 500 page
Unhandled == [kind |-> "exception", ok |-> FALSE, status |-> 500, error |-> None, keys |-> {}, user_id |-> 0,
           removed |-> {}]

ErrorResp(error, status) == Json(FALSE, status, error, {"ok", "error"})

\* an open transaction: rows written so far, and whether a failed statement
\* has put it in the aborted state (every later statement then fails)
NewTx == [imgs |-> {}, embs |-> {}, aborted |-> FALSE]

\* what a request remembers of its insert_embedding call
NoCall == [made |-> FALSE, hasVec |-> FALSE, source |-> None, before |-> NewTx,
           after |-> NewTx, stmts |-> <<>>, raised |-> FALSE]
Call(tx, hasVec, source, ins) ==
    [made |-> TRUE, hasVec |-> hasVec, source |-> source, before |-> tx, after |-> ins.tx,
     stmts |-> ins.stmts, raised |-> ins.raised]

\* 0 stands for a user_id that is absent (None)
NoUser == 0
NoPayload == [username |-> "", display_name |-> "", email |-> "", consent |-> FALSE,
              user_id |-> NoUser, image |-> {}]
NoEnc == [kind |-> "none", vec |-> 0]
NoPut == [raised |-> FALSE, stored |-> FALSE, uploads |-> 0, failures |-> 0]
NoCur == [flow |-> None, n |-> 0, p |-> NoPayload, user_id |-> NoUser, enc |-> NoEnc,
          imgRow |-> {}, idCommitted |-> FALSE, imgCommitted |-> FALSE,
          embAttempted |-> FALSE, embFailed |-> FALSE, embCommitted |-> FALSE,
          embForm |-> "none", extracted |-> FALSE, extractRaised |-> FALSE, faultFree |-> TRUE,
          threshold |-> 0, queried |-> FALSE, nearest |-> {}, dist |-> 0, rows |-> <<>>, put |-> NoPut,
          usersBefore |-> <<>>, imagesBefore |-> {}, embBefore |-> {}, call |-> NoCall]

\* ------------------------------------------------------------------ the store
\* _detect_vector_type: the new value of _HAS_VECTOR (also the result)
NotProbed == [set |-> FALSE, val |-> FALSE]
Cached(b) == [set |-> TRUE, val |-> b]
DetectVectorType(cache, probeOk) ==
    IF cache.set THEN cache
    ELSE IF probeOk THEN Cached(pg_vector) ELSE Cached(FALSE)

\* outcome of one statement: "ok", "server" (the server rejected it: the
\* transaction is aborted) or "client" (it failed before reaching the server)
StmtOutcomes == {"ok", "server", "client"}
StmtOk(tx, o) == ~tx.aborted /\ o = "ok"
AfterFailure(tx, o) == [tx EXCEPT !.aborted = tx.aborted \/ o = "server"]

EmbeddingRow(id, user_id, vec, source) ==
    [id |-> id, user_id |-> user_id, enc |-> vec, source |-> source]

\* one cur.execute of insert_embedding: the form of the statement, whether
\* the statement is valid by itself (o = "ok") and whether it succeeded on tx
Stmt(form, tx, o) == [form |-> form, valid |-> o = "ok", ok |-> StmtOk(tx, o)]

\* `if has_vector:` before the ::vector statement
TriesVectorAlways(hasVec) == TRUE
TriesVector(hasVec) == hasVec

\* a variant that stores the row in both forms
insert_embedding_both(tx, hasVec, user_id, vec, source, id, arr, vecStmt) ==
    [raised |-> ~StmtOk(tx, arr), form |-> IF StmtOk(tx, arr) THEN "array" ELSE "none",
     tx |-> IF StmtOk(tx, arr)
            THEN [tx EXCEPT !.embs = @ \cup {EmbeddingRow(id, user_id, vec, source),
                                             EmbeddingRow(id, user_id, vec, "vector")}]
            ELSE AfterFailure(tx, arr),
     stmts |-> IF StmtOk(tx, arr)
               THEN <<Stmt("array", tx, arr), Stmt("vector", tx, vecStmt)>>
               ELSE <<Stmt("array", tx, arr)>>]

\* insert_embedding on the caller's transaction; form is the statement that
\* stored the row, stmts the statements issued in order
insert_embedding(tx, hasVec, user_id, vec, source, id, arr, vecStmt) ==
    IF StmtOk(tx, arr)
    THEN [raised |-> FALSE, form |-> "array",
          tx |-> [tx EXCEPT !.embs = @ \cup {EmbeddingRow(id, user_id, vec, source)}],
          stmts |-> <<Stmt("array", tx, arr)>>]
    ELSE LET tx1 == AfterFailure(tx, arr)
         IN  IF TriesVector(hasVec) /\ StmtOk(tx1, vecStmt)
             THEN [raised |-> FALSE, form |-> "vector",
                   tx |-> [tx1 EXCEPT !.embs = @ \cup {EmbeddingRow(id, user_id, vec, source)}],
                   stmts |-> <<Stmt("array", tx, arr), Stmt("vector", tx1, vecStmt)>>]
             ELSE [raised |-> TRUE, form |-> "none",
                   tx |-> IF TriesVector(hasVec) THEN AfterFailure(tx1, vecStmt) ELSE tx1,
                   stmts |-> IF TriesVector(hasVec)
                             THEN <<Stmt("array", tx, arr), Stmt("vector", tx1, vecStmt)>>
                             ELSE <<Stmt("array", tx, arr)>>]

\* INSERT ... ON CONFLICT (username) DO UPDATE ... RETURNING id
\* usernames: the ones clients supply, and the temp_<uuid> ones of provisional users
Given(h) == [temp |-> FALSE, name |-> h, n |-> 0]
TempName(n) == [temp |-> TRUE, name |-> "temp", n |-> n]
UserWithHandle(h) == {u \in DOMAIN users : users[u].username = Given(h)}
UpsertId(h) == IF UserWithHandle(h) = {} THEN nreq + 1 ELSE CHOOSE u \in UserWithHandle(h) : TRUE
UpsertRowKeepsEmail(h, p) ==
    IF UserWithHandle(h) = {}
    THEN [username |-> Given(h), display_name |-> p.display_name, email |-> p.email,
          verified |-> "default"]
    ELSE [users[UpsertId(h)] EXCEPT !.display_name = p.display_name]
UpsertRow(h, p) ==
    IF UserWithHandle(h) = {}
    THEN [username |-> Given(h), display_name |-> p.display_name, email |-> p.email,
          verified |-> "default"]
    ELSE [users[UpsertId(h)] EXCEPT !.display_name = p.display_name, !.email = p.email]
Upsert(h, p) == [u \in DOMAIN users \cup {UpsertId(h)} |->
                    IF u = UpsertId(h) THEN UpsertRow(h, p) ELSE users[u]]

\* the users table after the upsert's transaction failed: a rollback that
\* keeps the row, and the rollback
FailedUpsertKeepsRow(h, p) == Upsert(h, p)
FailedUpsert(h, p) == users

ImagesOf(u) == {r \in images : r.user_id = u}
EmbeddingsOf(u) == {r \in embeddings : r.user_id = u}


\* ------------------------------------------------------------------ faults
\* The first thing that goes wrong in one transaction block (at most one
\* failure is fatal to the block; insert_embedding alone can see two).
\*   put_url:   upload raises, the URL lookup still resolves
\*   put_retry: upload raises, no URL, the second upload succeeds
\*   put:       both uploads raise
\*   arr_server / arr_client: the float8[] insert fails on the server / in the client
\*   arr_client_vec: the float8[] insert and the ::vector insert both fail
\*   probe:     the pgvector probe of _detect_vector_type raises
Faults == {"none", "conn", "put_url", "put_retry", "put", "img_insert", "import",
           "probe", "arr_server", "arr_client", "arr_client_vec", "commit"}

ArrOutcome(f) == CASE f = "arr_server" -> "server"
                   [] f \in {"arr_client", "arr_client_vec"} -> "client"
                   [] OTHER -> "ok"
VecOutcome(f) == IF f = "arr_client_vec" THEN "server" ELSE "ok"

\* save_image_to_storage: upload, and on failure the URL lookup and the
\* second upload through a temporary file
save_image_to_storage(f) ==
    CASE f = "put_url"   -> [raised |-> FALSE, stored |-> FALSE, uploads |-> 1, failures |-> 1]
      [] f = "put_retry" -> [raised |-> FALSE, stored |-> TRUE, uploads |-> 2, failures |-> 1]
      [] f = "put"       -> [raised |-> TRUE, stored |-> FALSE, uploads |-> 2, failures |-> 2]
      [] OTHER           -> [raised |-> FALSE, stored |-> TRUE, uploads |-> 1, failures |-> 0]

ImageRowFixedName(id, user_id, path) ==
    [id |-> user_id, user_id |-> user_id, storage_path |-> <<user_id, 0>>]
ImageRow(id, user_id, path) == [id |-> id, user_id |-> user_id, storage_path |-> path]

Sig(r) == [ok |-> r.ok, status |-> r.status, error |-> r.error, keys |-> r.keys]

\* outcome class of a finished enrollment request
Class(c) ==
    CASE c.imgCommitted /\ c.embCommitted -> "full"
      [] c.imgRow # {} /\ c.embFailed -> "emb_failed"
      [] c.imgCommitted /\ c.extracted /\ c.enc.kind = "none" -> "no_face"
      [] OTHER -> "other"

Begin(flow, p) == [NoCur EXCEPT !.flow = flow, !.n = nreq + 1, !.p = p, !.user_id = p.user_id,
                                !.usersBefore = users, !.imagesBefore = images,
                                !.embBefore = embeddings]

\* a new request arrives
StartRequest ==
    /\ pc = "idle"
    /\ nreq < MaxRequests
    /\ nreq' = nreq + 1
    /\ UNCHANGED <<detectVars, attVars>>

\* ------------------------------------------------------------------ api_register
RegisterForms(imgs) ==
    { [username |-> h, display_name |-> d.display_name, email |-> d.email,
       consent |-> TRUE, user_id |-> NoUser, image |-> i] :
         h \in Handles, d \in ProfileInputs, i \in {{}} \cup {{x} : x \in imgs} }

\* well-formed registrations that store different encodings
SeedPayloads == RegisterForms(SeedImages)

RegisterPayloads ==
    RegisterForms(EnrollImages)
    \cup { [username |-> "", display_name |-> "A", email |-> "a@x", consent |-> TRUE,
            user_id |-> NoUser, image |-> {}],
           [username |-> "ali", display_name |-> "A", email |-> "a@x", consent |-> FALSE,
            user_id |-> NoUser, image |-> {}] }

\* the success body without the identifier
RegisterOkNoId(u, p) == Json(TRUE, 201, None, {"ok", "display_name"})
RegisterOk(u, p) ==
    [Json(TRUE, 201, None, {"ok", "user_id", "display_name"}) EXCEPT !.user_id = u]

\* validation, then the identity upsert in its own transaction
api_register_identity(p, connOk, stmtOk) ==
    /\ StartRequest
    /\ UNCHANGED <<images, embeddings, blobs, pg_vector, has_vector>>
    /\ IF p.display_name = "" \/ p.username = "" \/ ~p.consent
       THEN /\ resp' = ErrorResp("missing_fields", 400)
            /\ pc' = "done"
            /\ cur' = [Begin("register", p) EXCEPT !.faultFree = FALSE]
            /\ trace' = <<>>
            /\ UNCHANGED users
       ELSE IF ~connOk
       THEN /\ resp' = Unhandled
            /\ pc' = "done"
            /\ cur' = [Begin("register", p) EXCEPT !.faultFree = FALSE]
            /\ trace' = <<>>
            /\ UNCHANGED users
       ELSE IF ~stmtOk
       THEN /\ resp' = Json(FALSE, 500, "db_error", {"ok", "error", "detail"})
            /\ pc' = "done"
            /\ cur' = [Begin("register", p) EXCEPT !.faultFree = FALSE]
            /\ trace' = <<"rollback">>
            /\ users' = FailedUpsert(p.username, p)
       ELSE /\ users' = Upsert(p.username, p)
            /\ cur' = [Begin("register", p) EXCEPT !.user_id = UpsertId(p.username),
                                                   !.idCommitted = TRUE]
            /\ trace' = <<"identity_commit">>
            /\ IF p.image # {}
               THEN pc' = "reg_image" /\ resp' = NoResp
               ELSE pc' = "done" /\ resp' = RegisterOk(UpsertId(p.username), p)

\* the statements of the image block of api_register, in program order
RegisterStepsSwapped == <<"blob_put", "extract", "embedding_insert", "image_insert">>
RegisterSteps == <<"blob_put", "image_insert", "extract", "embedding_insert">>

\* the image block of api_register: blob put, Image row, extraction and
\* Embedding row on one connection, committed or rolled back together
RegisterImageTx(img, f, hasVec) ==
    LET put == save_image_to_storage(f)
        path == <<cur.user_id, cur.n>>
        row == ImageRow(cur.n, cur.user_id, path)
        enc == compute_face_encoding(img, f # "import")
        tx1 == [NewTx EXCEPT !.imgs = {row}]
        ins == insert_embedding(tx1, hasVec, cur.user_id, enc.vec, "register", cur.n,
                                ArrOutcome(f), VecOutcome(f))
        start == [blobs |-> blobs, tx |-> NewTx, commit |-> FALSE, steps |-> <<>>,
                  embForm |-> "none",
                  imgRow |-> {}, extracted |-> FALSE, extractRaised |-> FALSE,
                  embAttempted |-> FALSE, embFailed |-> FALSE, enc |-> NoEnc,
                  call |-> NoCall]
        afterPut == [start EXCEPT !.blobs = IF put.stored THEN blobs \cup {path} ELSE blobs,
                                  !.steps = SubSeq(RegisterSteps, 1, 1)]
        afterImg == [afterPut EXCEPT !.tx = tx1, !.imgRow = {row},
                                     !.steps = SubSeq(RegisterSteps, 1, 2)]
        afterEnc == [afterImg EXCEPT !.extracted = TRUE, !.enc = enc,
                                     !.steps = SubSeq(RegisterSteps, 1, 3)]
        afterIns == [afterEnc EXCEPT !.tx = ins.tx, !.embAttempted = TRUE,
                                     !.call = Call(tx1, hasVec, "register", ins),
                                     !.embFailed = ins.raised, !.embForm = ins.form,
                                     !.steps = RegisterSteps]
        Rollback(r) == [r EXCEPT !.steps = Append(@, "rollback")]
        Commit(r) == IF f = "commit" THEN Rollback(r)
                     ELSE [r EXCEPT !.commit = TRUE, !.steps = Append(@, "commit")]
    IN  IF put.raised THEN Rollback(afterPut)
        ELSE IF f = "img_insert" THEN Rollback(afterPut)
        ELSE IF enc.kind = "raise" THEN Rollback([afterEnc EXCEPT !.extractRaised = TRUE])
        ELSE IF enc.kind = "none" THEN Commit(afterEnc)
        ELSE IF ins.raised THEN Rollback(afterIns)
        ELSE Commit(afterIns)

api_register_image(f) ==
    /\ pc = "reg_image"
    /\ UNCHANGED <<detectVars, attVars>>
    /\ LET img == CHOOSE x \in cur.p.image : TRUE
           u == cur.user_id
       IN  IF ~img.decodes \/ f = "conn"
           THEN \* caught by the outer handler: nothing was started
                /\ cur' = [cur EXCEPT !.faultFree = FALSE]
                /\ UNCHANGED <<images, embeddings, blobs, has_vector, trace>>
           ELSE LET needsProbe == compute_face_encoding(img, f # "import").kind = "enc"
                                  /\ f \notin {"put", "img_insert"}
                    hv == IF needsProbe THEN DetectVectorType(has_vector, f # "probe") ELSE has_vector
                    r == RegisterImageTx(img, f, hv.val)
                    c == [cur EXCEPT !.imgRow = r.imgRow,
                                     !.imgCommitted = r.commit /\ r.imgRow # {},
                                     !.embAttempted = r.embAttempted,
                                     !.embFailed = r.embFailed,
                                     !.embForm = r.embForm,
                                     !.call = r.call,
                                     !.embCommitted = r.commit /\ r.embAttempted,
                                     !.extracted = r.extracted,
                                     !.extractRaised = r.extractRaised,
                                     !.enc = r.enc,
                                     !.put = save_image_to_storage(f),
                                     !.faultFree = (f = "none")]
                IN  /\ has_vector' = hv
                    /\ blobs' = r.blobs
                    /\ images' = IF r.commit THEN images \cup r.tx.imgs ELSE images
                    /\ embeddings' = IF r.commit THEN embeddings \cup r.tx.embs ELSE embeddings
                    /\ trace' = trace \o r.steps
                    /\ cur' = c
    /\ resp' = RegisterOk(cur.user_id, cur.p)
    /\ pc' = "done"
    /\ UNCHANGED <<users, pg_vector, nreq>>

\* ------------------------------------------------------------------ api_capture_face
CapturePayloads ==
    { [NoPayload EXCEPT !.user_id = u, !.image = i] :
         u \in DOMAIN users \cup {NoUser}, i \in {{}} \cup {{x} : x \in EnrollImages} }

CaptureOk == Json(TRUE, 201, None, {"ok", "profile_image_url", "storage_path", "preview_data_url"})
DbError == Json(FALSE, 500, "db_error", {"ok", "error", "detail"})
NoFace == Json(FALSE, 200, "no_face", {"ok", "error", "message"})
BadImage == Json(FALSE, 400, "bad_image", {"ok", "error", "detail"})

\* decoding, extraction and the storage check, before anything is written
api_capture_face_start(p, importOk, storageOk) ==
    /\ StartRequest
    /\ UNCHANGED <<users, images, embeddings, blobs, pg_vector, has_vector>>
    /\ LET c == Begin("capture", p)
           img == CHOOSE x \in p.image : TRUE
           enc == compute_face_encoding(img, importOk)
       IN  IF p.image = {}
           THEN resp' = ErrorResp("missing_image", 400) /\ pc' = "done" /\ cur' = c /\ trace' = <<>>
           ELSE IF ~img.decodes
           THEN resp' = BadImage /\ pc' = "done" /\ cur' = c /\ trace' = <<>>
           ELSE IF enc.kind = "raise"
           THEN /\ resp' = Unhandled /\ pc' = "done" /\ trace' = <<"extract">>
                /\ cur' = [c EXCEPT !.extracted = TRUE, !.extractRaised = TRUE, !.faultFree = FALSE]
           ELSE IF enc.kind = "none"
           THEN /\ resp' = NoFace /\ pc' = "done" /\ trace' = <<"extract">>
                /\ cur' = [c EXCEPT !.extracted = TRUE, !.enc = enc]
           ELSE IF ~storageOk
           THEN /\ resp' = Json(FALSE, 500, "storage_not_configured", {"ok", "error", "detail"})
                /\ pc' = "done" /\ trace' = <<"extract">>
                /\ cur' = [c EXCEPT !.extracted = TRUE, !.enc = enc, !.faultFree = FALSE]
           ELSE /\ resp' = NoResp /\ trace' = <<"extract">>
                /\ cur' = [c EXCEPT !.extracted = TRUE, !.enc = enc]
                /\ pc' = IF p.user_id = NoUser THEN "cap_identity" ELSE "cap_image"

\* the row of the provisional user: temp_<hex> as both names, verified false
ProvisionalRowUnmarked(n) ==
    [username |-> TempName(n), display_name |-> "temp", email |-> "", verified |-> "default"]
ProvisionalRow(n) ==
    [username |-> TempName(n), display_name |-> "temp", email |-> "", verified |-> "false"]

\* the provisional user, in its own transaction
api_capture_face_identity(connOk, stmtOk) ==
    /\ pc = "cap_identity"
    /\ UNCHANGED <<detectVars, attVars>>
    /\ UNCHANGED <<images, embeddings, blobs, pg_vector, has_vector, nreq>>
    /\ IF ~connOk
       THEN /\ resp' = Unhandled /\ pc' = "done"
            /\ cur' = [cur EXCEPT !.faultFree = FALSE]
            /\ UNCHANGED <<users, trace>>
       ELSE IF ~stmtOk
       THEN /\ resp' = DbError /\ pc' = "done"
            /\ cur' = [cur EXCEPT !.faultFree = FALSE]
            /\ trace' = Append(trace, "rollback")
            /\ UNCHANGED users
       ELSE /\ users' = [u \in DOMAIN users \cup {cur.n} |->
                            IF u = cur.n THEN ProvisionalRow(cur.n) ELSE users[u]]
            /\ cur' = [cur EXCEPT !.user_id = cur.n, !.idCommitted = TRUE]
            /\ trace' = Append(trace, "identity_commit")
            /\ resp' = NoResp
            /\ pc' = "cap_image"

\* blob put, Image row and Embedding row on one connection
CaptureImageTx(f, hasVec) ==
    LET put == save_image_to_storage(f)
        path == <<cur.user_id, cur.n>>
        row == ImageRow(cur.n, cur.user_id, path)
        tx1 == [NewTx EXCEPT !.imgs = {row}]
        ins == insert_embedding(tx1, hasVec, cur.user_id, cur.enc.vec, "capture", cur.n,
                                ArrOutcome(f), VecOutcome(f))
        start == [blobs |-> blobs, tx |-> NewTx, commit |-> FALSE, steps |-> <<>>,
                  imgRow |-> {}, embAttempted |-> FALSE, embFailed |-> FALSE,
                  embForm |-> "none", call |-> NoCall]
        afterPut == [start EXCEPT !.blobs = IF put.stored THEN blobs \cup {path} ELSE blobs,
                                  !.steps = <<"blob_put">>]
        afterImg == [afterPut EXCEPT !.tx = tx1, !.imgRow = {row},
                                     !.steps = <<"blob_put", "image_insert">>]
        afterIns == [afterImg EXCEPT !.tx = ins.tx, !.embAttempted = TRUE,
                                     !.call = Call(tx1, hasVec, "capture", ins),
                                     !.embFailed = ins.raised, !.embForm = ins.form,
                                     !.steps = <<"blob_put", "image_insert", "embedding_insert">>]
        Rollback(r) == [r EXCEPT !.steps = Append(@, "rollback")]
    IN  IF put.raised THEN Rollback(afterPut)
        ELSE IF f = "img_insert" THEN Rollback(afterPut)
        ELSE IF ins.raised THEN Rollback(afterIns)
        ELSE IF f = "commit" THEN Rollback(afterIns)
        ELSE [afterIns EXCEPT !.commit = TRUE, !.steps = Append(@, "commit")]

api_capture_face_image(f) ==
    /\ pc = "cap_image"
    /\ UNCHANGED <<detectVars, attVars>>
    /\ f # "import"
    /\ pc' = "done"
    /\ UNCHANGED <<users, pg_vector, nreq>>
    /\ IF f = "conn"
       THEN /\ resp' = Unhandled
            /\ cur' = [cur EXCEPT !.faultFree = FALSE]
            /\ UNCHANGED <<images, embeddings, blobs, has_vector, trace>>
       ELSE LET needsProbe == f \notin {"put", "img_insert"}
                hv == IF needsProbe THEN DetectVectorType(has_vector, f # "probe") ELSE has_vector
                r == CaptureImageTx(f, hv.val)
            IN  /\ has_vector' = hv
                /\ blobs' = r.blobs
                /\ images' = IF r.commit THEN images \cup r.tx.imgs ELSE images
                /\ embeddings' = IF r.commit THEN embeddings \cup r.tx.embs ELSE embeddings
                /\ trace' = trace \o r.steps
                /\ cur' = [cur EXCEPT !.imgRow = r.imgRow,
                                      !.imgCommitted = r.commit,
                                      !.embAttempted = r.embAttempted,
                                      !.embFailed = r.embFailed,
                                      !.embForm = r.embForm,
                                      !.call = r.call,
                                      !.embCommitted = r.commit,
                                      !.put = save_image_to_storage(f),
                                      !.faultFree = (f = "none")]
                /\ resp' = IF r.commit THEN CaptureOk ELSE DbError

\* ------------------------------------------------------------------ api_attach_image
AttachPayloads ==
    { [NoPayload EXCEPT !.user_id = u, !.image = i] :
         u \in DOMAIN users \cup {NoUser}, i \in {{}} \cup {{x} : x \in EnrollImages} }

AttachImageFaults == {"none", "conn", "put_url", "put_retry", "put", "img_insert", "commit"}
AttachEncodeFaults == {"none", "conn", "import", "probe", "arr_server", "arr_client",
                       "arr_client_vec", "commit"}

AttachOk == Json(TRUE, 201, None, {"ok", "storage_path", "public_url"})

\* img_conn.commit(): the Image row becomes durable before the embedding work
AttachCommitDeferred(row) == images
AttachCommit(row) == images \cup {row}

\* decoding, then the blob put and the Image row in their own transaction
api_attach_image_image(p, f) ==
    /\ StartRequest
    /\ UNCHANGED <<users, embeddings, pg_vector, has_vector>>
    /\ LET c == Begin("attach", p)
           img == CHOOSE x \in p.image : TRUE
           put == save_image_to_storage(f)
           path == <<p.user_id, nreq + 1>>
           row == ImageRow(nreq + 1, p.user_id, path)
           Fail(error, status, keys, steps, newBlobs) ==
               /\ resp' = Json(FALSE, status, error, keys)
               /\ pc' = "done"
               /\ cur' = [c EXCEPT !.faultFree = FALSE,
                                   !.put = IF steps = <<>> THEN NoPut ELSE put]
               /\ trace' = steps
               /\ blobs' = newBlobs
               /\ UNCHANGED images
           putBlobs == IF put.stored THEN blobs \cup {path} ELSE blobs
       IN  IF p.user_id = NoUser
           THEN Fail("missing_user_id", 400, {"ok", "error"}, <<>>, blobs)
           ELSE IF p.image = {}
           THEN Fail("missing_image", 400, {"ok", "error"}, <<>>, blobs)
           ELSE IF ~img.decodes
           THEN Fail("unexpected", 500, {"ok", "error", "detail"}, <<>>, blobs)
           ELSE IF f = "conn"
           THEN Fail("image_save_failed", 500, {"ok", "error"}, <<>>, blobs)
           ELSE IF put.raised
           THEN Fail("image_save_failed", 500, {"ok", "error"}, <<"blob_put", "rollback">>,
                     blobs)
           ELSE IF f = "img_insert"
           THEN Fail("image_save_failed", 500, {"ok", "error"}, <<"blob_put", "rollback">>,
                     putBlobs)
           ELSE IF f = "commit"
           THEN Fail("image_save_failed", 500, {"ok", "error"},
                     <<"blob_put", "image_insert", "rollback">>, putBlobs)
           ELSE /\ blobs' = IF put.stored THEN blobs \cup {path} ELSE blobs
                /\ images' = AttachCommit(row)
                /\ cur' = [c EXCEPT !.imgRow = {row}, !.imgCommitted = TRUE,
                                    !.put = put,
                                    !.faultFree = (f = "none")]
                /\ trace' = <<"blob_put", "image_insert", "image_commit">>
                /\ resp' = NoResp
                /\ pc' = "att_encode"

\* extraction and the Embedding row in a second transaction
api_attach_image_encode(f) ==
    /\ pc = "att_encode"
    /\ UNCHANGED <<detectVars, attVars>>
    /\ pc' = "done"
    /\ resp' = AttachOk
    /\ UNCHANGED <<users, images, blobs, pg_vector, nreq>>
    /\ LET img == CHOOSE x \in cur.p.image : TRUE
           enc == compute_face_encoding(img, f # "import")
           hv == DetectVectorType(has_vector, f # "probe")
           ins == insert_embedding(NewTx, hv.val, cur.user_id, enc.vec, "attach", cur.n,
                                   ArrOutcome(f), VecOutcome(f))
           c == [cur EXCEPT !.extracted = TRUE, !.enc = enc,
                            !.faultFree = cur.faultFree /\ f = "none"]
       IN  IF enc.kind = "raise"
           THEN /\ cur' = [c EXCEPT !.extractRaised = TRUE, !.enc = NoEnc]
                /\ trace' = Append(trace, "extract")
                /\ UNCHANGED <<embeddings, has_vector>>
           ELSE IF enc.kind = "none"
           THEN /\ cur' = c
                /\ trace' = Append(trace, "extract")
                /\ UNCHANGED <<embeddings, has_vector>>
           ELSE IF f = "conn"
           THEN /\ cur' = [c EXCEPT !.embFailed = TRUE]
                /\ trace' = Append(trace, "extract")
                /\ UNCHANGED <<embeddings, has_vector>>
           ELSE /\ has_vector' = hv
                /\ IF ins.raised \/ f = "commit"
                   THEN /\ cur' = [c EXCEPT !.embAttempted = TRUE, !.embFailed = TRUE,
                                            !.embForm = ins.form,
                                            !.call = Call(NewTx, hv.val, "attach", ins)]
                        /\ trace' = trace \o <<"extract", "embedding_insert", "rollback">>
                        /\ UNCHANGED embeddings
                   ELSE /\ cur' = [c EXCEPT !.embAttempted = TRUE, !.embCommitted = TRUE,
                                            !.embForm = ins.form,
                                            !.call = Call(NewTx, hv.val, "attach", ins)]
                        /\ trace' = trace \o <<"extract", "embedding_insert", "commit">>
                        /\ embeddings' = embeddings \cup ins.tx.embs

\* ------------------------------------------------------------------ api_login_face
\* a value of the request payload: absent, a JSON number or a string that
\* spells a number (form fields are always strings)
Absent == [kind |-> "absent", val |-> 0]
Num(n) == [kind |-> "num", val |-> n]
Str(n) == [kind |-> "str", val |-> n]

\* Python's `x or default`
PyTruthy(v) == \/ v.kind = "num" /\ v.val # 0
               \/ v.kind = "str"
PyOr(v, default) == IF PyTruthy(v) THEN v ELSE Num(default)
\* float(x) and int(x) on these values
ToNumber(v) == v.val

\* 0.5, in grid steps of 0.5
DefaultThreshold == 1
DefaultLimit == 1

ThresholdInputs == {Absent, Str(0)} \cup {Num(n) : n \in 0..MaxEnc}
LimitInputs == {Absent, Num(2), Str(0)}

LoginPayloads ==
    { [username |-> "", display_name |-> "", email |-> "", consent |-> FALSE,
       user_id |-> NoUser, image |-> i, threshold |-> t, limit |-> l] :
         i \in {{}} \cup {{x} : x \in LoginImages}, t \in ThresholdInputs, l \in LimitInputs }

\* Euclidean distance on the grid
Dist(a, b) == IF a >= b THEN a - b ELSE b - a

\* the results with limit_count rows in any order
find_nearest_embeddings_unordered(q, limit_count) ==
    LET n == IF limit_count < Cardinality(embeddings) THEN limit_count
             ELSE Cardinality(embeddings)
    IN  {s \in [1..n -> embeddings] : \A i, j \in 1..n : i # j => s[i] # s[j]}

\* public.find_nearest_embeddings(q, limit_count): the results that
\* ORDER BY embedding <-> q LIMIT limit_count can give; rows at the same
\* distance come in any order
find_nearest_embeddings(q, limit_count) ==
    LET n == IF limit_count < Cardinality(embeddings) THEN limit_count
             ELSE Cardinality(embeddings)
    IN  {s \in [1..n -> embeddings] :
            /\ \A i, j \in 1..n : i # j => s[i] # s[j]
            /\ \A i, j \in 1..n : i < j => Dist(s[i].enc, q) <= Dist(s[j].enc, q)
            /\ \A o \in embeddings :
                  (\A i \in 1..n : s[i] # o) =>
                      \A i \in 1..n : Dist(s[i].enc, q) <= Dist(o.enc, q)}

NoRow == EmbeddingRow(0, NoUser, 0, "none")

LoginOk(u) == [Json(TRUE, 200, None, {"ok", "user", "distance"}) EXCEPT !.user_id = u]
NoMatch == Json(FALSE, 200, "no_match", {"ok", "error"})
NoMatchDist == Json(FALSE, 200, "no_match", {"ok", "error", "min_distance"})
NotSupported == Json(FALSE, 501, "nearest_embeddings_not_supported", {"ok", "error", "detail"})

\* `dist is None or float(dist) > threshold`
RejectsAtBoundary(dist, threshold) == dist >= threshold
Rejects(dist, threshold) == dist > threshold

\* `if not _detect_vector_type(): return ... 501`
NearestAllowedAlways(hv) == TRUE
NearestAllowed(hv) == hv.val

LoginFaults == {"none", "conn", "query"}

\* the rows that the statements of api_login_face's transaction write: the
\* query encoding kept as a row, and none (two SELECTs)
nearest_query_tx_learns(q) == [NewTx EXCEPT !.embs = {EmbeddingRow(0, NoUser, q, "login")}]
nearest_query_tx(q) == NewTx

api_login_face(p, importOk, probeOk, f) ==
    /\ pc = "idle"
    /\ pc' = "done"
    /\ UNCHANGED <<users, images, blobs, pg_vector, nreq, detectVars, attVars>>
    /\ LET c == Begin("login", p)
           img == CHOOSE x \in p.image : TRUE
           enc == compute_face_encoding(img, importOk)
           threshold == ToNumber(PyOr(p.threshold, DefaultThreshold))
           limit == ToNumber(PyOr(p.limit, DefaultLimit))
           hv == DetectVectorType(has_vector, probeOk)
           c0 == [c EXCEPT !.extracted = TRUE, !.enc = enc, !.threshold = threshold]
           early == \/ p.image = {}
                    \/ ~img.decodes
                    \/ enc.kind # "enc"
                    \/ ~NearestAllowed(hv)
                    \/ f # "none"
       IN  \E result \in (IF early THEN {<<>>} ELSE find_nearest_embeddings(enc.vec, limit)) :
           LET pick == IF result = <<>> THEN NoRow ELSE result[1]
               c1 == [c0 EXCEPT !.rows = result]
           IN
         /\ embeddings' = IF early THEN embeddings
                          ELSE embeddings \cup nearest_query_tx(enc.vec).embs
         /\ IF p.image = {}
              THEN resp' = ErrorResp("missing_image", 400) /\ cur' = c /\ trace' = <<>>
                   /\ UNCHANGED has_vector
              ELSE IF ~img.decodes
              THEN resp' = BadImage /\ cur' = c /\ trace' = <<>> /\ UNCHANGED has_vector
              ELSE IF enc.kind = "raise"
              THEN /\ resp' = Unhandled /\ trace' = <<"extract">> /\ UNCHANGED has_vector
                   /\ cur' = [c EXCEPT !.extracted = TRUE, !.extractRaised = TRUE]
              ELSE IF enc.kind = "none"
              THEN /\ resp' = NoFace /\ trace' = <<"extract">> /\ UNCHANGED has_vector
                   /\ cur' = [c EXCEPT !.extracted = TRUE, !.enc = enc]
              ELSE /\ has_vector' = hv
                   /\ IF ~NearestAllowed(hv)
                      THEN resp' = NotSupported /\ cur' = c1 /\ trace' = <<"extract">>
                      ELSE IF f = "conn"
                      THEN resp' = Unhandled /\ cur' = c1 /\ trace' = <<"extract">>
                      ELSE IF f = "query"
                      THEN /\ resp' = DbError
                           /\ cur' = [c1 EXCEPT !.queried = TRUE]
                           /\ trace' = <<"extract", "nearest_query", "rollback">>
                      ELSE /\ trace' = <<"extract", "nearest_query", "commit">>
                           /\ IF pick = NoRow
                              THEN /\ resp' = NoMatch
                                   /\ cur' = [c1 EXCEPT !.queried = TRUE]
                              ELSE /\ cur' = [c1 EXCEPT !.queried = TRUE, !.nearest = {pick},
                                                        !.dist = Dist(pick.enc, enc.vec)]
                                   /\ IF Rejects(Dist(pick.enc, enc.vec), threshold)
                                      THEN resp' = NoMatchDist
                                      ELSE IF pick.user_id \notin DOMAIN users
                                      THEN resp' = ErrorResp("user_missing", 404)
                                      ELSE resp' = LoginOk(pick.user_id)

\* ------------------------------------------------------------------ api_detect_face
DetectOk == Json(TRUE, 200, None, {"ok", "faces"})

\* decoding and one face_locations call; the answer is the bounding boxes
api_detect_face(p, importOk) ==
    /\ pc = "idle"
    /\ pc' = "done"
    /\ UNCHANGED <<users, images, embeddings, blobs, pg_vector, has_vector, nreq,
                   detectVars, attVars>>
    /\ cur' = Begin("detect", p)
    /\ trace' = <<>>
    /\ LET img == CHOOSE x \in p.image : TRUE
       IN  resp' = IF p.image = {} THEN ErrorResp("missing_image", 400)
                   ELSE IF ~img.decodes THEN BadImage
                   ELSE IF ~importOk
                   THEN Json(FALSE, 500, "face_recognition_failed", {"ok", "error", "detail"})
                   ELSE IF img.hog.raises THEN Unhandled
                   ELSE DetectOk

\* ------------------------------------------------------------------ owner-only handlers
\* GET / PUT / DELETE /api/users/<user_id> and DELETE /api/user_images/<image_id>.
\* actor is what _get_actor_user_id resolves (NoUser: no claim presented).
Ids == 1..MaxRequests
Actors == {NoUser} \cup Ids

\* body of a PUT: not parseable, or the set of updatable fields it carries
UpdateBodies == { [wellFormed |-> FALSE, updates |-> {}],
                  [wellFormed |-> TRUE, updates |-> {}],
                  [wellFormed |-> TRUE, updates |-> {"display_name", "email"}] }
NoBody == [wellFormed |-> TRUE, updates |-> {}]
OwnerFaults == {"none", "conn", "stmt", "commit"}

OwnerPayload(actor, target, image_id, body) ==
    [actor |-> actor, user_id |-> target, image_id |-> image_id, body |-> body]

Forbidden == Json(FALSE, 403, "forbidden", {"ok", "error", "detail"})
\* werkzeug's BadRequest for a body that get_json(force=True) cannot parse
BadRequest == [Unhandled EXCEPT !.status = 400]
GetOk(u) == [Json(TRUE, 200, None, {"ok", "user", "images", "embedding_count"}) EXCEPT !.user_id = u]
UpdateOk == Json(TRUE, 200, None, {"ok"})
DeleteUserOk(paths) ==
    [Json(TRUE, 200, None, {"ok", "removed_storage_paths"}) EXCEPT !.removed = paths]
DeleteImageOk(paths) ==
    [Json(TRUE, 200, None, {"ok", "removed_from_storage", "storage_path"}) EXCEPT !.removed = paths]

\* `if not actor or str(actor) != str(user_id)`
NotOwner(actor, target) == actor = NoUser \/ actor # target

StartOwner ==
    /\ pc = "idle"
    /\ pc' = "done"
    /\ UNCHANGED <<nreq, pg_vector, has_vector, detectVars, attVars>>

api_get_user(actor, target, f) ==
    /\ StartOwner
    /\ cur' = Begin("get_user", OwnerPayload(actor, target, 0, NoBody))
    /\ UNCHANGED <<users, images, embeddings, blobs>>
    /\ IF NotOwner(actor, target)
       THEN resp' = Forbidden /\ trace' = <<>>
       ELSE IF f = "conn"
       THEN resp' = Json(FALSE, 500, "db_error", {"ok", "error", "detail"}) /\ trace' = <<>>
       ELSE IF target \notin DOMAIN users
       THEN resp' = ErrorResp("user_missing", 404) /\ trace' = <<"select">>
       ELSE resp' = GetOk(target) /\ trace' = <<"select">>

\* the UPDATE of api_update_user
UpdateRow(row, updates) ==
    [row EXCEPT !.display_name = IF "display_name" \in updates THEN "B" ELSE @,
                !.email = IF "email" \in updates THEN "b@x" ELSE @]

api_update_user(actor, target, body, f) ==
    /\ StartOwner
    /\ cur' = Begin("update_user", OwnerPayload(actor, target, 0, body))
    /\ UNCHANGED <<images, embeddings, blobs>>
    /\ IF ~body.wellFormed
       THEN resp' = BadRequest /\ trace' = <<>> /\ UNCHANGED users
       ELSE IF body.updates = {}
       THEN resp' = ErrorResp("no_updates", 400) /\ trace' = <<>> /\ UNCHANGED users
       ELSE IF NotOwner(actor, target)
       THEN resp' = Forbidden /\ trace' = <<>> /\ UNCHANGED users
       ELSE IF f = "conn"
       THEN /\ resp' = Json(FALSE, 500, "unexpected", {"ok", "error", "detail"})
            /\ trace' = <<>> /\ UNCHANGED users
       ELSE IF f \in {"stmt", "commit"}
       THEN /\ resp' = Json(FALSE, 500, "db_error", {"ok", "error", "detail"})
            /\ trace' = <<"update", "rollback">> /\ UNCHANGED users
       ELSE IF target \notin DOMAIN users
       THEN /\ resp' = ErrorResp("user_missing", 404)
            /\ trace' = <<"update", "rollback">> /\ UNCHANGED users
       ELSE /\ users' = [users EXCEPT ![target] = UpdateRow(@, body.updates)]
            /\ resp' = UpdateOk
            /\ trace' = <<"update", "commit">>

\* the three DELETEs of api_delete_user, in program order
DeleteUserStepsBlobFirst ==
    <<"blob_remove", "delete_embeddings", "delete_images", "delete_user", "commit">>
DeleteUserSteps ==
    <<"delete_embeddings", "delete_images", "delete_user", "commit", "blob_remove">>

\* the embeddings left after `DELETE FROM public.embeddings WHERE user_id = %s`
KeepEmbeddings(u) == embeddings
\* the DELETE without its WHERE clause
DeleteEveryEmbedding(u) == {}
DeleteEmbeddings(u) == {r \in embeddings : r.user_id # u}

\* failing: the paths whose storage remove raises
api_delete_user(actor, target, f, failing) ==
    /\ StartOwner
    /\ cur' = [Begin("delete_user", OwnerPayload(actor, target, 0, NoBody))
                  EXCEPT !.imgRow = ImagesOf(target)]
    /\ IF NotOwner(actor, target)
       THEN resp' = Forbidden /\ trace' = <<>> /\ UNCHANGED <<users, images, embeddings, blobs>>
       ELSE IF f = "conn"
       THEN /\ resp' = Json(FALSE, 500, "db_error", {"ok", "error", "detail"})
            /\ trace' = <<>> /\ UNCHANGED <<users, images, embeddings, blobs>>
       ELSE IF f = "stmt"
       THEN /\ resp' = Json(FALSE, 500, "db_error", {"ok", "error", "detail"})
            /\ trace' = SubSeq(DeleteUserSteps, 1, 1)
            /\ UNCHANGED <<users, images, embeddings, blobs>>
       ELSE IF target \notin DOMAIN users
       THEN /\ resp' = ErrorResp("user_missing", 404)
            /\ trace' = Append(SubSeq(DeleteUserSteps, 1, 3), "rollback")
            /\ UNCHANGED <<users, images, embeddings, blobs>>
       ELSE IF f = "commit"
       THEN /\ resp' = Json(FALSE, 500, "db_error", {"ok", "error", "detail"})
            /\ trace' = SubSeq(DeleteUserSteps, 1, 3)
            /\ UNCHANGED <<users, images, embeddings, blobs>>
       ELSE LET paths == {r.storage_path : r \in ImagesOf(target)}
                removed == paths \ failing
            IN  /\ embeddings' = DeleteEmbeddings(target)
                /\ images' = {r \in images : r.user_id # target}
                /\ users' = [u \in DOMAIN users \ {target} |-> users[u]]
                /\ blobs' = blobs \ removed
                /\ resp' = DeleteUserOk(removed)
                /\ trace' = IF paths = {} THEN SubSeq(DeleteUserSteps, 1, 4) ELSE DeleteUserSteps

\* api_delete_user served by another worker for its owner while an attach or
\* capture request naming the same user_id is between two of its steps: the
\* three DELETEs and the commit, then the storage removes; the answer goes to
\* that worker's caller
api_delete_user_during(target, failing) ==
    /\ pc \in {"att_encode", "cap_image"}
    /\ target = cur.p.user_id
    /\ target \in DOMAIN users
    /\ LET paths == {r.storage_path : r \in ImagesOf(target)}
       IN  /\ embeddings' = DeleteEmbeddings(target)
           /\ images' = {r \in images : r.user_id # target}
           /\ users' = [u \in DOMAIN users \ {target} |-> users[u]]
           /\ blobs' = blobs \ (paths \ failing)
    /\ UNCHANGED <<pc, cur, resp, trace, nreq, pg_vector, has_vector, detectVars, attVars>>

\* `if not owner_row or str(owner_row[0]) != str(actor)`, and no test at all
NotImageOwnerSkipped(actor, owners) == FALSE
NotImageOwner(actor, owners) == actor \notin owners

api_delete_image(actor, image_id, f, removeOk) ==
    /\ StartOwner
    /\ LET rows == {r \in images : r.id = image_id}
           owners == {r.user_id : r \in rows}
           paths == {r.storage_path : r \in rows}
           c == [Begin("delete_image", OwnerPayload(actor, NoUser, image_id, NoBody))
                    EXCEPT !.imgRow = rows]
       IN  /\ cur' = c
           /\ UNCHANGED <<users, embeddings>>
           /\ IF actor = NoUser
              THEN resp' = Forbidden /\ trace' = <<>> /\ UNCHANGED <<images, blobs>>
              ELSE IF f \in {"conn", "stmt"}
              THEN /\ resp' = Json(FALSE, 500, "db_error", {"ok", "error", "detail"})
                   /\ trace' = <<>> /\ UNCHANGED <<images, blobs>>
              ELSE IF rows = {}
              THEN /\ resp' = ErrorResp("image_missing", 404)
                   /\ trace' = <<"select">> /\ UNCHANGED <<images, blobs>>
              ELSE IF NotImageOwner(actor, owners)
              THEN resp' = Forbidden /\ trace' = <<"select">> /\ UNCHANGED <<images, blobs>>
              ELSE IF f = "commit"
              THEN /\ resp' = Json(FALSE, 500, "db_error", {"ok", "error", "detail"})
                   /\ trace' = <<"select", "delete_images">> /\ UNCHANGED <<images, blobs>>
              ELSE /\ images' = images \ rows
                   /\ blobs' = IF removeOk THEN blobs \ paths ELSE blobs
                   /\ resp' = DeleteImageOk(IF removeOk THEN paths ELSE {})
                   /\ trace' = <<"select", "delete_images", "commit", "blob_remove">>

\* ------------------------------------------------------------------ main_loop
\* The recognition loop of main_supabase.py; several instances of it run
\* against one database.  Time is in seconds; the clock starts well after
\* the epoch and advances between frames.
StartTime == 100
TickSteps == {15, 16}
\* `if now - last > 30`
Cooldown == 30
Instances == 1..MaxInstances
\* the user_ids loaded by load_embeddings_for_recognition
KnownUsers == {1}
NoEvent == [inst |-> 0, user_id |-> 0, at |-> 0, attempted |-> FALSE, logged |-> FALSE]

\* row of attendance_log; by stands for the serial id of the row
AttendanceEntry(u, t, i) == [user_id |-> u, timestamp |-> t, by |-> i]

\* one recognised face of a frame, lines 79-87; logOk is the result of
\* log_attendance
\* `if now - last > 30`, and the test that also passes at 30
CooledDownAtBoundary(last) == now - last >= Cooldown
CooledDown(last) == now - last > Cooldown

recognise(i, u, logOk) ==
    /\ IF CooledDown(last_seen[i][u])
       THEN /\ attendance_log' = IF logOk THEN attendance_log \cup {AttendanceEntry(u, now, i)}
                                 ELSE attendance_log
            /\ last_attendance_time' = IF logOk THEN [last_attendance_time EXCEPT ![u] = now]
                                       ELSE last_attendance_time
            /\ last_seen' = [last_seen EXCEPT ![i][u] = now]
            /\ event' = [inst |-> i, user_id |-> u, at |-> now, attempted |-> TRUE,
                         logged |-> logOk]
       ELSE /\ event' = [inst |-> i, user_id |-> u, at |-> now, attempted |-> FALSE,
                         logged |-> FALSE]
            /\ UNCHANGED <<attendance_log, last_attendance_time, last_seen>>
    /\ UNCHANGED <<now, has_vector, pg_vector, webVars, detectVars, checkVars, recVars>>

\* time passes between frames
tick(d) ==
    /\ now + d <= MaxTime
    /\ now' = now + d
    /\ UNCHANGED <<attendance_log, last_attendance_time, last_seen, event>>
    /\ UNCHANGED <<has_vector, pg_vector, webVars, detectVars, checkVars, recVars>>

\* ------------------------------------------------------------------ _detect_vector_type
\* The function as the threads of one process run it: the test of the cache,
\* the probe on a connection of its own, the assignment to _HAS_VECTOR and
\* the return are separate steps, and the steps of different workers interleave.
Workers == 1..MaxWorkers
IdleWorker == [pc |-> "idle", val |-> FALSE, late |-> FALSE, calls |-> 0]

\* `if _HAS_VECTOR is not None`
CacheHitOnlyTrue(cache) == cache.set /\ cache.val
CacheHit(cache) == cache.set

\* the call: late remembers that some call had returned before this one began
detect_enter(w) ==
    /\ workers[w].pc = "idle"
    /\ workers[w].calls < MaxCalls
    /\ workers' = [workers EXCEPT ![w] = [pc |-> IF CacheHit(has_vector) THEN "cached" ELSE "probe",
                                          val |-> FALSE,
                                          late |-> returned,
                                          calls |-> @.calls + 1]]
    /\ UNCHANGED <<returned, has_vector, pg_vector, webVars, attVars>>

\* get_db_conn and the SELECT on pg_type; any exception answers False
detect_probe(w, ok) ==
    /\ workers[w].pc = "probe"
    /\ workers' = [workers EXCEPT ![w].pc = "write",
                                  ![w].val = IF ok THEN pg_vector ELSE FALSE]
    /\ UNCHANGED <<returned, has_vector, pg_vector, webVars, attVars>>

\* `_HAS_VECTOR = bool(...)` or, in the except branch, `_HAS_VECTOR = False`
detect_write(w) ==
    /\ workers[w].pc = "write"
    /\ has_vector' = Cached(workers[w].val)
    /\ workers' = [workers EXCEPT ![w].pc = "probed"]
    /\ UNCHANGED <<returned, pg_vector, webVars, attVars>>

\* `return _HAS_VECTOR`
detect_return(w) ==
    /\ workers[w].pc \in {"cached", "probed"}
    /\ workers' = [workers EXCEPT ![w].pc = "idle", ![w].val = FALSE, ![w].late = FALSE]
    /\ returned' = TRUE
    /\ UNCHANGED <<has_vector, pg_vector, webVars, attVars>>

\* ------------------------------------------------------------------ db_supabase
\* check_recent_attendance, log_attendance and update_attendance as workers
\* run them one after the other for one identity; the steps of different
\* workers interleave. The clock has half seconds: an instant is
\* 2 * seconds + half.
Instant(sec, half) == 2 * sec + half
\* strftime("%Y-%m-%d %H:%M:%S") keeps the whole seconds of an instant
Strftime(sec, half) == sec
\* strptime of that text: the instant of the whole second
Strptime(text) == Instant(text, 0)
IdleChecker == [pc |-> "idle", runs |-> 0, late |-> FALSE, suppressed |-> FALSE,
                total |-> 0, stamp |-> 0, updates |-> 0]
LoggedEntry(u, sec, half, w) == [user_id |-> u, timestamp |-> Instant(sec, half), by |-> w]

\* check_recent_attendance(user_id, min_seconds = 30), lines 158-170: True
\* when the stored time is less than min_seconds old
check_recent_attendance(u) ==
    IF last_attendance_time[u] = 0
    THEN FALSE
    ELSE Instant(now, frac) - Strptime(last_attendance_time[u]) < 2 * Cooldown

\* a worker starts: the check, and nothing more when it answers True
check_start(w, u) ==
    /\ checkers[w].pc = "idle"
    /\ checkers[w].runs < MaxCalls
    /\ LET recent == check_recent_attendance(u)
           late == completed # 0 /\ Instant(now, frac) - completed < 2 * Cooldown
       IN checkers' = [checkers EXCEPT ![w] =
              [@ EXCEPT !.pc = IF recent THEN "idle" ELSE "passed",
                        !.runs = @ + 1,
                        !.late = late,
                        !.suppressed = recent]]
    /\ UNCHANGED <<now, frac, attendance_log, last_attendance_time, total_attendance,
                   completed, last_seen, event>>
    /\ UNCHANGED <<has_vector, pg_vector, webVars, detectVars, recVars>>

\* log_attendance, lines 140-154: the insert; False when it raised
check_log(w, u, ok) ==
    /\ checkers[w].pc = "passed"
    /\ attendance_log' = IF ok THEN attendance_log \cup {LoggedEntry(u, now, frac, w)}
                         ELSE attendance_log
    /\ checkers' = [checkers EXCEPT ![w].pc = IF ok THEN "logged" ELSE "idle"]
    /\ UNCHANGED <<now, frac, last_attendance_time, total_attendance, completed,
                   last_seen, event>>
    /\ UNCHANGED <<has_vector, pg_vector, webVars, detectVars, recVars>>

\* update_attendance, lines 46-54: get_user, then the new values
update_attendance_read(w, u) ==
    /\ checkers[w].pc = "logged"
    /\ checkers' = [checkers EXCEPT ![w] =
           [@ EXCEPT !.pc = "read",
                     !.total = total_attendance[u] + 1,
                     !.stamp = Strftime(now, frac)]]
    /\ UNCHANGED <<now, frac, attendance_log, last_attendance_time, total_attendance,
                   completed, last_seen, event>>
    /\ UNCHANGED <<has_vector, pg_vector, webVars, detectVars, recVars>>

\* update_attendance, lines 56-57: the update of the row
update_attendance_write(w, u) ==
    /\ checkers[w].pc = "read"
    /\ total_attendance' = [total_attendance EXCEPT ![u] = checkers[w].total]
    /\ last_attendance_time' = [last_attendance_time EXCEPT ![u] = checkers[w].stamp]
    /\ completed' = Instant(now, frac)
    /\ checkers' = [checkers EXCEPT ![w] = [@ EXCEPT !.pc = "idle", !.updates = @ + 1]]
    /\ UNCHANGED <<now, frac, attendance_log, last_seen, event>>
    /\ UNCHANGED <<has_vector, pg_vector, webVars, detectVars, recVars>>

\* time passes between the steps of the workers; a step of the clock is far
\* longer than one request, so none falls between the two requests of
\* update_attendance
pass(d, h) ==
    /\ now + d <= MaxTime
    /\ \A w \in Workers : checkers[w].pc # "read"
    /\ now' = now + d
    /\ frac' = h
    /\ UNCHANGED <<attendance_log, last_attendance_time, total_attendance, checkers,
                   completed, last_seen, event>>
    /\ UNCHANGED <<has_vector, pg_vector, webVars, detectVars, recVars>>

\* ------------------------------------------------------------------ recognize_once
\* 0.6, in grid steps of 0.6
DIST_THRESHOLD == 1

\* what load_embeddings_for_recognition can return: rows of (user_id, embedding)
KnownRows == UNION {[1..n -> [user_id : Ids, enc : Encodings]] : n \in 0..MaxKnown}
\* the encodings of the faces of one frame
Frames == UNION {[1..n -> Encodings] : n \in 0..MaxFaces}

\* the module's start: the two lists, index by index
load_embeddings_for_recognition(rows) ==
    /\ encode_list_known' = [i \in DOMAIN rows |-> rows[i].enc]
    /\ user_ids' = [i \in DOMAIN rows |-> rows[i].user_id]
    /\ results' = <<>>
    /\ UNCHANGED <<now, attendance_log, last_attendance_time, last_seen, event, checkVars>>
    /\ UNCHANGED <<has_vector, pg_vector, webVars, detectVars>>

\* face_recognition.face_distance and np.argmin: the first index at the
\* least distance
face_distance(enc) == [i \in DOMAIN encode_list_known |-> Dist(encode_list_known[i], enc)]
argmin(dists) ==
    CHOOSE i \in DOMAIN dists :
        /\ \A j \in DOMAIN dists : dists[i] <= dists[j]
        /\ \A j \in 1..(i - 1) : dists[j] > dists[i]

\* `if best_dist < DIST_THRESHOLD`
Accepts(best_dist) == best_dist < DIST_THRESHOLD

\* one entry of the result list: (loc, user_id or None, distance or None)
FaceResult(enc, user_id, dist, measured) ==
    [enc |-> enc, user_id |-> user_id, dist |-> dist, measured |-> measured]

recognize_once(frame) ==
    /\ results' = [i \in DOMAIN frame |->
          IF encode_list_known = <<>>
          THEN FaceResult(frame[i], NoUser, 0, FALSE)
          ELSE LET dists == face_distance(frame[i])
                   best_idx == argmin(dists)
                   best_dist == dists[best_idx]
               IN  IF Accepts(best_dist)
                   THEN FaceResult(frame[i], user_ids[best_idx], best_dist, TRUE)
                   ELSE FaceResult(frame[i], NoUser, best_dist, TRUE)]
    /\ UNCHANGED <<encode_list_known, user_ids>>
    /\ UNCHANGED <<now, attendance_log, last_attendance_time, last_seen, event, checkVars>>
    /\ UNCHANGED <<has_vector, pg_vector, webVars, detectVars>>

\* ------------------------------------------------------------------ compute_face_encoding
\* one call of compute_face_encoding on a decoded image
compute_face_encoding_call(img, importOk) ==
    /\ StartOwner
    /\ cur' = [NoCur EXCEPT !.flow = "encode",
                            !.p = [NoPayload EXCEPT !.image = img],
                            !.enc = compute_face_encoding(img, importOk)]
    /\ trace' = IF importOk THEN StagesRun(img) ELSE <<>>
    /\ UNCHANGED <<users, images, embeddings, blobs, resp>>

\* ------------------------------------------------------------------ end of a request
Finish ==
    /\ pc = "done"
    /\ UNCHANGED <<detectVars, attVars>>
    /\ pc' = "idle"
    /\ cur' = NoCur
    /\ resp' = NoResp
    /\ trace' = <<>>
    /\ UNCHANGED <<users, images, embeddings, blobs, pg_vector, has_vector, nreq>>

Init ==
    /\ users = <<>>
    /\ images = {}
    /\ embeddings = {}
    /\ blobs = {}
    /\ pg_vector \in BOOLEAN
    /\ has_vector = NotProbed
    /\ pc = "idle"
    /\ cur = NoCur
    /\ resp = NoResp
    /\ trace = <<>>
    /\ nreq = 0
    /\ workers = [w \in Workers |-> IdleWorker]
    /\ returned = FALSE
    /\ now = StartTime
    /\ attendance_log = {}
    /\ last_attendance_time = [u \in KnownUsers |-> 0]
    /\ last_seen = [i \in Instances |-> [u \in KnownUsers |-> 0]]
    /\ event = NoEvent
    /\ frac = 0
    /\ total_attendance = [u \in KnownUsers |-> 0]
    /\ checkers = [w \in Workers |-> IdleChecker]
    /\ completed = 0
    /\ encode_list_known = <<>>
    /\ user_ids = <<>>
    /\ results = <<>>


Register ==
    \/ \E p \in RegisterPayloads, connOk, stmtOk \in BOOLEAN : api_register_identity(p, connOk, stmtOk)
    \/ \E f \in Faults : api_register_image(f)

Capture ==
    \/ \E p \in CapturePayloads, importOk, storageOk \in BOOLEAN :
           api_capture_face_start(p, importOk, storageOk)
    \/ \E connOk, stmtOk \in BOOLEAN : api_capture_face_identity(connOk, stmtOk)
    \/ \E f \in Faults : api_capture_face_image(f)

Attach ==
    \/ \E p \in AttachPayloads, f \in AttachImageFaults : api_attach_image_image(p, f)
    \/ \E f \in AttachEncodeFaults : api_attach_image_encode(f)

Login ==
    \/ \E p \in LoginPayloads, importOk, probeOk \in BOOLEAN, f \in LoginFaults :
          api_login_face(p, importOk, probeOk, f)
    \/ \E p \in LoginPayloads, importOk \in BOOLEAN :
          (p.threshold = Absent /\ p.limit = Absent /\ api_detect_face(p, importOk))

\* enrollment under every fault
Next == Register \/ Capture \/ Attach \/ Finish

Spec == Init /\ [][Next]_vars

\* login under every fault, against what fault-free registrations stored
LoginSeedPayloads == {p \in SeedPayloads : p.display_name = "A"}

RegisterNoFault ==
    \/ \E p \in LoginSeedPayloads : api_register_identity(p, TRUE, TRUE)
    \/ api_register_image("none")

NextLogin == RegisterNoFault \/ Login \/ Finish

SpecLogin == Init /\ [][NextLogin]_vars

\* the owner-only handlers, against what fault-free registrations stored
OwnerSeedPayloads ==
    {p \in SeedPayloads : p.display_name = "A" /\ p.image \in {{}, {FaceImg(0)}}}

RegisterOwners ==
    \/ \E p \in OwnerSeedPayloads : api_register_identity(p, TRUE, TRUE)
    \/ api_register_image("none")

Owner ==
    \/ \E a \in Actors, t \in Ids, f \in {"none", "conn"} : api_get_user(a, t, f)
    \/ \E a \in Actors, t \in Ids, b \in UpdateBodies, f \in OwnerFaults :
           api_update_user(a, t, b, f)
    \/ \E a \in Actors, t \in Ids, f \in OwnerFaults :
           \E failing \in SUBSET {r.storage_path : r \in ImagesOf(t)} :
               api_delete_user(a, t, f, failing)
    \/ \E a \in Actors, i \in Ids, f \in OwnerFaults, removeOk \in BOOLEAN :
           api_delete_image(a, i, f, removeOk)

NextOwner == RegisterOwners \/ Owner \/ Finish

SpecOwner == Init /\ [][NextOwner]_vars

\* attach and capture under every fault, with deletions by the owner arriving
\* between their transactions
DeleteDuring ==
    \E t \in Ids : \E failing \in SUBSET {r.storage_path : r \in ImagesOf(t)} :
        api_delete_user_during(t, failing)

NextDeleteRace == RegisterOwners \/ Attach \/ Capture \/ DeleteDuring \/ Finish

SpecDeleteRace == Init /\ [][NextDeleteRace]_vars

\* the workers of one process calling _detect_vector_type
NextDetect ==
    \E w \in Workers :
        \/ detect_enter(w)
        \/ \E ok \in BOOLEAN : detect_probe(w, ok)
        \/ detect_write(w)
        \/ detect_return(w)

SpecDetect == Init /\ [][NextDetect]_vars

\* the recognition loops
NextAttendance ==
    \/ \E i \in Instances, u \in KnownUsers, logOk \in BOOLEAN : recognise(i, u, logOk)
    \/ \E d \in TickSteps : tick(d)

SpecAttendance == Init /\ [][NextAttendance]_vars

\* workers running check, log, update for one identity
NextCheckLog ==
    \/ \E w \in Workers, u \in KnownUsers : check_start(w, u)
    \/ \E w \in Workers, u \in KnownUsers, ok \in BOOLEAN : check_log(w, u, ok)
    \/ \E w \in Workers, u \in KnownUsers : update_attendance_read(w, u)
    \/ \E w \in Workers, u \in KnownUsers : update_attendance_write(w, u)
    \/ \E d \in TickSteps, h \in {0, 1} : pass(d, h)

SpecCheckLog == Init /\ [][NextCheckLog]_vars

\* the recognition of frames against the loaded encodings
NextRecognize ==
    \/ \E rows \in KnownRows : load_embeddings_for_recognition(rows)
    \/ \E frame \in Frames : recognize_once(frame)

SpecRecognize == Init /\ [][NextRecognize]_vars

\* calls of compute_face_encoding
NextEncoding ==
    \/ \E img \in StageImages, importOk \in BOOLEAN : compute_face_encoding_call(img, importOk)
    \/ Finish

SpecEncoding == Init /\ [][NextEncoding]_vars

\* ------------------------------------------------------------------ properties
Pos(ev) == IF \E i \in DOMAIN trace : trace[i] = ev
           THEN CHOOSE i \in DOMAIN trace : trace[i] = ev /\ \A j \in 1..(i - 1) : trace[j] # ev
           ELSE 0
Has(ev) == Pos(ev) > 0
\* b happens only after a has happened
Precedes(a, b) == Has(b) => (Has(a) /\ Pos(a) < Pos(b))

\* the response each enrollment handler gives when every step succeeded
SuccessSig(flow) ==
    CASE flow = "register" -> Sig(RegisterOk(NoUser, NoPayload))
      [] flow = "capture" -> Sig(CaptureOk)
      [] flow = "attach" -> Sig(AttachOk)

Enrolling == cur.flow \in {"register", "capture", "attach"}
Count(S) == Cardinality(S)

\* C1: in api_register and api_capture_face, when insert_embedding fails after
\* the Identity row was committed and the Image row was inserted, the finished
\* request leaves the Identity row and the Image row committed and the
\* identity's embeddings unchanged.
C1_ImageSurvivesEmbeddingFailure ==
    (pc = "done" /\ cur.flow \in {"register", "capture"} /\ cur.imgRow # {} /\ cur.embFailed)
        => /\ cur.user_id \in DOMAIN users
           /\ cur.imgRow \subseteq images
           /\ EmbeddingsOf(cur.user_id) = {e \in cur.embBefore : e.user_id = cur.user_id}

\* C2: api_attach_image commits the Image row before any embedding work; when
\* extraction or insert_embedding then fails, the Identity and Image rows stay
\* committed, no Embedding row is added and the response is ok (201).
C2_AttachImageDurable ==
    /\ cur.flow = "attach" =>
          /\ Precedes("image_commit", "extract")
          /\ Precedes("image_commit", "embedding_insert")
          /\ pc = "att_encode" => cur.imgRow \subseteq images
    /\ (pc = "done" /\ cur.flow = "attach" /\ cur.imgCommitted
          /\ (cur.extractRaised \/ cur.embFailed))
          => /\ cur.imgRow \subseteq images
             /\ cur.user_id \in DOMAIN users
             /\ users = cur.usersBefore
             /\ embeddings = cur.embBefore
             /\ resp.kind = "json" /\ resp.ok /\ resp.status = 201

C2_Witness ==
    /\ pc = "done" /\ cur.flow = "attach" /\ cur.imgCommitted
    /\ cur.embAttempted /\ cur.embFailed /\ resp.ok

\* C3: when the identity and image steps of an enrollment succeed and the
\* embedding persist fails, the response reports success and differs from the
\* response of a fully successful enrollment (it says that no encoding was stored).
C3_NoEncodingIndicator ==
    (pc = "done" /\ Enrolling /\ Class(cur) = "emb_failed")
        => /\ resp.kind = "json" /\ resp.ok
           /\ Sig(resp) # SuccessSig(cur.flow)

\* C4: api_register with an image in which no face is found commits the
\* Identity and Image rows, writes no Embedding row, and answers with success
\* while signalling no_face, unlike a success that stored an encoding.
C4_NoFaceSignalled ==
    (pc = "done" /\ cur.flow = "register" /\ Class(cur) = "no_face")
        => /\ cur.user_id \in DOMAIN users
           /\ cur.imgRow \subseteq images
           /\ embeddings = cur.embBefore
           /\ resp.kind = "json" /\ resp.ok
           /\ Sig(resp) # SuccessSig("register")

C6_UpsertByHandle ==
    /\ \A u, v \in DOMAIN users : users[u].username = users[v].username => u = v
    /\ (pc \in {"reg_image", "done"} /\ cur.flow = "register" /\ cur.idCommitted) =>
          LET h == Given(cur.p.username)
              before == {u \in DOMAIN cur.usersBefore : cur.usersBefore[u].username = h}
          IN  /\ cur.user_id \in DOMAIN users
              /\ before \subseteq {cur.user_id}
              /\ users[cur.user_id].username = h
              /\ users[cur.user_id].display_name = cur.p.display_name
              /\ users[cur.user_id].email = cur.p.email
              /\ pc = "done" => (resp.ok /\ resp.user_id = cur.user_id)

C6_Witness ==
    /\ pc = "done" /\ cur.flow = "register" /\ resp.ok
    /\ \E u \in DOMAIN cur.usersBefore :
          /\ cur.usersBefore[u].username = Given(cur.p.username)
          /\ cur.usersBefore[u].email # cur.p.email
          /\ resp.user_id = u

\* C7: an api_register call with an image and with no failing step adds
\* exactly one Image row to the identity, and one Embedding row when a face
\* is found, replaces or removes none and answers ok; so the second such call
\* for a handle leaves exactly two Image rows and at most two Embedding rows
\* (two when a face was found both times).
C7_TwoEnrollments ==
    (pc = "done" /\ cur.flow = "register" /\ cur.p.image # {} /\ cur.faultFree) =>
        LET u == cur.user_id
            imagesBefore == {r \in cur.imagesBefore : r.user_id = u}
            embBefore == {r \in cur.embBefore : r.user_id = u}
            n == IF cur.enc.kind = "enc" THEN 1 ELSE 0
        IN  /\ imagesBefore \subseteq ImagesOf(u)
            /\ embBefore \subseteq EmbeddingsOf(u)
            /\ Count(ImagesOf(u)) = Count(imagesBefore) + 1
            /\ Count(EmbeddingsOf(u)) = Count(embBefore) + n
            /\ Count(imagesBefore) = 1 =>
                   (Count(ImagesOf(u)) = 2 /\ Count(EmbeddingsOf(u)) <= Count(embBefore) + 1)
            /\ resp.kind = "json" /\ resp.ok /\ resp.status = 201

\* the second of two fault-free enrollments of one handle, a face both times
C7_Witness ==
    /\ pc = "done" /\ cur.flow = "register" /\ cur.faultFree /\ cur.embCommitted
    /\ \E u \in DOMAIN cur.usersBefore : cur.usersBefore[u].username = Given(cur.p.username)
    /\ Count({r \in cur.imagesBefore : r.user_id = cur.user_id}) = 1
    /\ Count({r \in cur.embBefore : r.user_id = cur.user_id /\ r.source = "register"}) = 1
    /\ Count(ImagesOf(cur.user_id)) = 2
    /\ Count(EmbeddingsOf(cur.user_id)) = 2

\* C8: api_login_face accepts the nearest stored embedding exactly when its
\* distance is at most the threshold in force; a distance equal to the
\* threshold is accepted, a greater one gives no_match.
C8_ThresholdBoundary ==
    (pc = "done" /\ cur.flow = "login" /\ cur.nearest # {}) =>
        /\ resp.ok <=> cur.dist <= cur.threshold
        /\ cur.dist > cur.threshold => resp.error = "no_match"
        /\ resp.ok => \E e \in cur.nearest : resp.user_id = e.user_id

C8_Witness ==
    /\ pc = "done" /\ cur.flow = "login" /\ cur.nearest # {}
    /\ cur.dist = cur.threshold /\ cur.dist > 0 /\ resp.ok

\* C9: the threshold api_login_face applies is the value the request supplies,
\* whatever that value is (0 included); 0.5 applies only when the request
\* carries no threshold.
C9_SuppliedThresholdApplied ==
    (pc = "done" /\ cur.flow = "login" /\ cur.enc.kind = "enc") =>
        cur.threshold = (IF cur.p.threshold.kind = "absent" THEN DefaultThreshold
                         ELSE cur.p.threshold.val)

Added == cur.call.after.embs \ cur.call.before.embs
Issued(form) == \E i \in DOMAIN cur.call.stmts : cur.call.stmts[i].form = form
Succeeded == {i \in DOMAIN cur.call.stmts : cur.call.stmts[i].ok}

\* C11: when _detect_vector_type answered that there is no vector type,
\* insert_embedding returns normally exactly when its float8[] statement
\* succeeds, then has written one row with the caller's user_id and source,
\* and the ::vector statement is never issued.
C11_ArrayOnly ==
    (cur.call.made /\ ~cur.call.hasVec) =>
        /\ Len(cur.call.stmts) = 1
        /\ cur.call.stmts[1].form = "array"
        /\ ~Issued("vector")
        /\ cur.call.raised <=> ~cur.call.stmts[1].ok
        /\ ~cur.call.raised =>
              /\ Count(Added) = 1
              /\ \A r \in Added : r.user_id = cur.user_id /\ r.source = cur.call.source

\* an array-only insert whose row the caller committed
C11_Witness ==
    /\ pc = "done" /\ cur.call.made /\ ~cur.call.hasVec
    /\ ~cur.call.raised /\ cur.embCommitted /\ Added \subseteq embeddings /\ Added # {}

\* C12: the float8[] statement is issued first; when it fails and the vector
\* type was detected, the ::vector statement is issued next on the same
\* transaction, and when that statement is valid the call returns normally.
C12_FallbackSucceeds ==
    cur.call.made =>
        /\ cur.call.stmts[1].form = "array"
        /\ (~cur.call.stmts[1].ok /\ cur.call.hasVec) =>
              /\ Len(cur.call.stmts) = 2
              /\ cur.call.stmts[2].form = "vector"
              /\ cur.call.stmts[2].valid => ~cur.call.raised

\* C13: a call that returns normally has written exactly one Embedding row,
\* for the caller's user_id, through exactly one statement; a call whose
\* statements all fail raises and writes none; the rows the caller wrote
\* before stay in the transaction, and a row of the call is in
\* public.embeddings only after the caller's own commit.
C13_OneRowOrRaise ==
    cur.call.made =>
        /\ cur.call.before.embs \subseteq cur.call.after.embs
        /\ cur.call.after.imgs = cur.call.before.imgs
        /\ cur.call.raised <=> Succeeded = {}
        /\ ~cur.call.raised =>
              /\ Count(Added) = 1
              /\ Count(Succeeded) = 1
              /\ \A r \in Added : r.user_id = cur.user_id
        /\ cur.call.raised => (Added = {} /\ embeddings = cur.embBefore)
        /\ (Added \cap embeddings) # {} => (Has("commit") /\ Precedes("embedding_insert", "commit"))
        /\ (embeddings \ cur.embBefore) \subseteq Added

\* a call that stored the row through the ::vector statement after the
\* float8[] statement failed in the client
C13_Witness ==
    /\ pc = "done" /\ cur.call.made /\ ~cur.call.raised
    /\ Len(cur.call.stmts) = 2 /\ ~cur.call.stmts[1].ok /\ cur.call.stmts[2].ok
    /\ Added \subseteq embeddings /\ Count(Added) = 1

\* ---- _detect_vector_type
\* C14: once a call of _detect_vector_type has returned, _HAS_VECTOR is set
\* and stays set, and every call that begins afterwards takes the cached
\* branch: it never reaches the probe (no connection, no catalog query) and
\* never assigns the cache, whether the first probe answered True, False or
\* raised.
C14_NoReprobe ==
    /\ returned => has_vector.set
    /\ \A w \in Workers : workers[w].late => workers[w].pc \in {"idle", "cached"}

\* a later call answering from a cache that a failed probe left at False
C14_Witness ==
    /\ returned /\ has_vector = Cached(FALSE) /\ pg_vector
    /\ \E w \in Workers : workers[w].late /\ workers[w].pc = "cached" /\ workers[w].calls = MaxCalls

\* C15: whatever the interleaving of the workers, and also when a probe
\* raises, a cached flag equals the capability of the database.
C15_FlagMatchesDatabase ==
    has_vector.set => has_vector.val = pg_vector

\* ---- main_loop
\* entries of the identity of the latest recognition that were recorded
\* within the cooldown before it, the entry of that recognition excluded
RecentEntries ==
    {e \in attendance_log :
        /\ e.user_id = event.user_id
        /\ e # AttendanceEntry(event.user_id, event.at, event.inst)
        /\ e.timestamp <= event.at
        /\ event.at - e.timestamp <= Cooldown}

\* C19: a recognition of an identity that only this instance has ever logged
\* leads to a log_attendance call exactly when no entry of the identity was
\* recorded within the cooldown before it; a failed earlier attempt, which
\* recorded nothing, does not suppress it.
C19_ThrottleByRecordedEntry ==
    (event.inst # 0 /\ \A e \in attendance_log : e.user_id = event.user_id => e.by = event.inst) =>
        (event.attempted <=> RecentEntries = {})

\* C20: a recognition is suppressed whenever the log holds an entry of the
\* identity within the cooldown, also when another instance recorded it.
C20_ThrottleAcrossInstances ==
    (event.inst # 0 /\ \E e \in RecentEntries : e.by # event.inst) => ~event.attempted

\* ---- owner-only handlers
UserData == {"user", "images", "embedding_count"}
RowsUnchanged ==
    users = cur.usersBefore /\ images = cur.imagesBefore /\ embeddings = cur.embBefore

\* C16: a GET, PUT or DELETE on /api/users/<A> whose actor is missing or is
\* not A is answered 403 forbidden, changes no row and carries none of A's
\* data, whatever fields the (parseable) body of the request carries, also
\* when a PUT carries no updatable field.
C16_ForbiddenForEveryBody ==
    (pc = "done" /\ cur.flow \in {"get_user", "update_user", "delete_user"}
        /\ cur.p.body.wellFormed
        /\ NotOwner(cur.p.actor, cur.p.user_id)) =>
        /\ resp.status = 403 /\ resp.error = "forbidden" /\ ~resp.ok
        /\ RowsUnchanged
        /\ resp.user_id = NoUser /\ resp.keys \cap UserData = {}

\* C17: when api_delete_user answers ok for X, the users row of X, every
\* user_images row of X and every embeddings row of X are gone and the rows
\* of other users are untouched; when it answers anything else, none of the
\* three tables has changed.
C17_DeleteUserAtomic ==
    (pc = "done" /\ cur.flow = "delete_user") =>
        LET x == cur.p.user_id
        IN  /\ resp.ok =>
                /\ x \notin DOMAIN users
                /\ ImagesOf(x) = {} /\ EmbeddingsOf(x) = {}
                /\ images = {r \in cur.imagesBefore : r.user_id # x}
                /\ embeddings = {r \in cur.embBefore : r.user_id # x}
                /\ \A u \in DOMAIN users : users[u] = cur.usersBefore[u]
            /\ ~resp.ok => RowsUnchanged

\* the owner deleted an identity that had an image and an embedding
C17_Witness ==
    /\ pc = "done" /\ cur.flow = "delete_user" /\ resp.ok
    /\ cur.imgRow # {}
    /\ \E r \in cur.embBefore : r.user_id = cur.p.user_id
    /\ DOMAIN users # {}

\* C18: api_delete_user and api_delete_image ask the blob store to remove a
\* path only after the row deletes are committed; whether or not the removal
\* fails the answer is ok (200), the rows stay deleted, and a path is
\* reported as removed exactly when its blob is gone.
C18_BlobRemovalAfterCommit ==
    (pc = "done" /\ cur.flow \in {"delete_user", "delete_image"}) =>
        /\ Precedes("commit", "blob_remove")
        /\ Precedes("delete_images", "commit")
        /\ Has("blob_remove") =>
              /\ resp.ok /\ resp.status = 200
              /\ cur.imgRow # {} /\ cur.imgRow \cap images = {}
              /\ \A r \in cur.imgRow : r.storage_path \in resp.removed <=> r.storage_path \notin blobs

\* a blob removal failed after the rows were deleted
C18_Witness ==
    /\ pc = "done" /\ cur.flow \in {"delete_user", "delete_image"} /\ Has("blob_remove")
    /\ resp.ok
    /\ \E r \in cur.imgRow : r.storage_path \notin resp.removed /\ r.storage_path \in blobs
                              /\ r \notin images

\* C21: every check that starts less than the cooldown after an
\* update_attendance completed is suppressed, and no window of one cooldown
\* holds more log entries of the identity than there are workers
C21_BoundedDuplicates ==
    /\ \A w \in Workers : checkers[w].late => checkers[w].suppressed
    /\ \A e \in attendance_log :
          Cardinality({e2 \in attendance_log :
                          /\ e2.user_id = e.user_id
                          /\ e2.timestamp >= e.timestamp
                          /\ e2.timestamp - e.timestamp < 2 * Cooldown}) <= MaxWorkers

\* the answer of the stage a call names, and the answer of the last detector
\* call of a sequence of calls
StageOf(img, name) == IF name = "hog" THEN img.hog ELSE IF name = "cnn" THEN img.cnn ELSE img.dflt
Found(img, name) == IF StageOf(img, name).raises THEN <<>> ELSE StageOf(img, name).regions
DetectorCalls(calls) == SelectSeq(calls, LAMBDA c : c \in {"hog", "default", "cnn"})
LastFound(img, calls) == Found(img, DetectorCalls(calls)[Len(DetectorCalls(calls))])
Times(calls, name) == Cardinality({i \in DOMAIN calls : calls[i] = name})
EncoderReturns(img) == img.encoder \in {"ok", "type_error"}

\* C22: compute_face_encoding runs the cnn stage at most once and only when
\* the detector calls before it found no region; when the last detector call
\* found no region it returns None without a call of the encoder; when it
\* found regions and the encoder returns, the result is the encoding of the
\* first region
C22_StageOrder ==
    (cur.flow = "encode" /\ cur.enc.kind # "raise") =>
        LET img == cur.p.image
        IN  /\ Times(trace, "cnn") <= 1
            /\ trace[1] = "hog"
            /\ \A i \in DOMAIN trace :
                  trace[i] = "cnn" => \A j \in 1..(i - 1) : Found(img, trace[j]) = <<>>
            /\ (Found(img, "hog") = <<>> /\ ~img.hog.raises) => Times(trace, "cnn") = 1
            /\ LastFound(img, trace) = <<>> =>
                  (cur.enc.kind = "none" /\ Times(trace, "encode") = 0)
            /\ (LastFound(img, trace) # <<>> /\ EncoderReturns(img)) =>
                  (cur.enc.kind = "enc" /\ cur.enc.vec = LastFound(img, trace)[1])

\* the cnn stage found two regions after hog found none, and the first was encoded
C22_Witness ==
    /\ cur.flow = "encode"
    /\ trace = <<"hog", "cnn", "encode">>
    /\ Len(cur.p.image.cnn.regions) = 2
    /\ cur.enc = [kind |-> "enc", vec |-> cur.p.image.cnn.regions[1]]

\* some call into face_recognition that the sequence holds raised
SomeCallRaised(img, calls) ==
    \/ \E i \in DOMAIN calls :
          calls[i] \in {"hog", "default", "cnn"} /\ StageOf(img, calls[i]).raises
    \/ Times(calls, "encode") > 0 /\ img.encoder # "ok"

\* C23: a call of compute_face_encoding in which a detector or the encoder
\* raised does not return None
C23_RaiseNotNone ==
    (cur.flow = "encode" /\ cur.enc.kind # "raise"
       /\ SomeCallRaised(cur.p.image, trace)) => cur.enc.kind # "none"

\* a login that asked for at least one row and whose query ran and committed
LoginQueried ==
    /\ cur.flow = "login"
    /\ cur.queried
    /\ Has("commit")
    /\ ToNumber(PyOr(cur.p.limit, DefaultLimit)) >= 1

\* C24: when the only stored embedding is E, owned by X, a login whose
\* image gives E and whose query ran answers X with distance 0, whatever
\* threshold >= 0 the request carries
C24_SelfMatch ==
    \A e \in embeddings :
        (LoginQueried /\ embeddings = {e} /\ cur.enc.vec = e.enc) =>
            (resp = LoginOk(e.user_id) /\ cur.dist = 0)

\* such a login with the threshold "0" of a form field
C24_Witness ==
    /\ LoginQueried
    /\ cur.p.threshold = Str(0)
    /\ \E e \in embeddings : embeddings = {e} /\ cur.enc.vec = e.enc /\ resp = LoginOk(e.user_id)

\* C25: the nearest query gives at most `limit` rows in ascending distance
\* to the query, and a login that answers an identity answers the owner of a
\* stored embedding at the least distance, with that distance
C25_NearestMinimal ==
    (cur.flow = "login" /\ cur.queried /\ Has("commit")) =>
        LET q == cur.enc.vec
            limit == ToNumber(PyOr(cur.p.limit, DefaultLimit))
        IN  /\ Len(cur.rows) <= limit
            /\ \A i, j \in DOMAIN cur.rows :
                  i < j => Dist(cur.rows[i].enc, q) <= Dist(cur.rows[j].enc, q)
            /\ resp.ok =>
                  /\ \E e \in embeddings :
                        e.user_id = resp.user_id /\ Dist(e.enc, q) = cur.dist
                  /\ \A o \in embeddings : cur.dist <= Dist(o.enc, q)

\* two rows at different distances came back and the owner of the nearer was answered
C25_Witness ==
    /\ cur.flow = "login" /\ cur.queried /\ resp.ok
    /\ Len(cur.rows) = 2
    /\ Dist(cur.rows[1].enc, cur.enc.vec) < Dist(cur.rows[2].enc, cur.enc.vec)
    /\ resp.user_id = cur.rows[1].user_id

\* C26: a registration whose identity was committed and whose image bytes
\* do not decode answers bad_image, not success
C26_RegisterBadImage ==
    (pc = "done" /\ cur.flow = "register" /\ cur.idCommitted
       /\ \E x \in cur.p.image : ~x.decodes) =>
        (~resp.ok /\ resp.error = "bad_image")

\* C27: every committed Image row references a stored blob
C27_RowOnlyAfterPut ==
    \A r \in images : r.storage_path \in blobs

\* what a step may do to the Embedding rows
EmbeddingsStep ==
    /\ \A e \in embeddings :
          e \notin embeddings' =>
              (/\ cur'.flow = "delete_user"
               /\ cur'.p.user_id = e.user_id
               /\ cur'.p.actor = e.user_id)
    /\ (cur'.flow \in {"delete_image", "update_user"}) => (embeddings' = embeddings)

C29_SinglePut ==
    /\ cur.put.uploads <= 1
    /\ cur.put.failures > 0 => cur.put.raised

\* C30: a finished api_register or api_login_face request has a JSON
\* response with the ok field and, when ok is false, the error field
C30_StructuredResponse ==
    (pc = "done" /\ cur.flow \in {"register", "login"}) =>
        /\ resp.kind = "json"
        /\ "ok" \in resp.keys
        /\ ~resp.ok => ("error" \in resp.keys /\ resp.error # None)

\* a step that is an api_register request with the three fields and no image
\* whose identity upsert committed
RegisterNoImageStep ==
    (pc = "idle" /\ cur'.flow = "register" /\ cur'.p.image = {} /\ cur'.idCommitted) =>
        /\ pc' = "done"
        /\ images' = images /\ embeddings' = embeddings /\ blobs' = blobs
        /\ resp'.ok /\ resp'.status = 201 /\ "user_id" \in resp'.keys
        /\ resp'.user_id \in DOMAIN users'
        /\ users'[resp'.user_id].username = Given(cur'.p.username)
        /\ DOMAIN users' = DOMAIN users \cup {resp'.user_id}
        /\ \A u \in DOMAIN users : u # resp'.user_id => users'[u] = users[u]

\* C31: api_register with display name, handle and consent and no image
\* creates or updates exactly the Identity row of the handle, leaves Image
\* rows, Embedding rows and blobs as they were, and answers ok, 201, with
\* the identity's identifier
C31_RegisterWithoutImage == [][RegisterNoImageStep]_vars

\* a second identity was registered without an image next to a stored one
C31_Witness ==
    /\ pc = "done" /\ cur.flow = "register" /\ cur.p.image = {} /\ cur.idCommitted
    /\ resp.ok /\ resp.status = 201
    /\ cur.usersBefore # <<>> /\ resp.user_id \notin DOMAIN cur.usersBefore
    /\ images # {} /\ images = cur.imagesBefore

\* a step that is an api_register request whose identity upsert failed
RegisterUpsertFailedStep ==
    (pc = "idle" /\ cur'.flow = "register" /\ trace' = <<"rollback">>) =>
        /\ pc' = "done"
        /\ ~resp'.ok /\ resp'.error = "db_error" /\ resp'.status = 500
        /\ users' = users /\ images' = images /\ embeddings' = embeddings /\ blobs' = blobs

\* C32: an api_register whose identity upsert fails answers db_error and
\* leaves Identity rows, Image rows, Embedding rows and blobs as they were
C32_UpsertFailureAborts == [][RegisterUpsertFailedStep]_vars

\* the upsert of a request that carried an image failed
C32_Witness ==
    /\ pc = "done" /\ cur.flow = "register" /\ trace = <<"rollback">>
    /\ cur.p.image # {} /\ resp.error = "db_error"
    /\ users = cur.usersBefore /\ cur.put = NoPut

\* C33: two different entries that one main_loop instance logged for one
\* identity are more than the cooldown apart
C33_EntriesApart ==
    \A e1, e2 \in attendance_log :
        (e1 # e2 /\ e1.by = e2.by /\ e1.user_id = e2.user_id) =>
            (e1.timestamp - e2.timestamp > Cooldown \/ e2.timestamp - e1.timestamp > Cooldown)

\* one instance logged the identity twice
C33_Witness ==
    \E e1, e2 \in attendance_log :
        e1.by = e2.by /\ e1.user_id = e2.user_id /\ e2.timestamp - e1.timestamp = Cooldown + 1

\* C34: once an api_capture_face without user_id has committed its
\* provisional identity, the users table holds exactly that one new row,
\* verified false, whatever the image and embedding transaction did after it
C34_ProvisionalIdentityKept ==
    (cur.flow = "capture" /\ cur.p.user_id = NoUser /\ cur.idCommitted) =>
        /\ cur.user_id \notin DOMAIN cur.usersBefore
        /\ DOMAIN users = DOMAIN cur.usersBefore \cup {cur.user_id}
        /\ users[cur.user_id].verified = "false"
        /\ users[cur.user_id].username.temp
        /\ \A u \in DOMAIN cur.usersBefore : users[u] = cur.usersBefore[u]

\* the image and embedding transaction failed with db_error and the
\* provisional identity is there
C34_Witness ==
    /\ pc = "done" /\ cur.flow = "capture" /\ cur.p.user_id = NoUser /\ cur.idCommitted
    /\ resp = DbError
    /\ images = cur.imagesBefore /\ embeddings = cur.embBefore
    /\ cur.user_id \in DOMAIN users /\ cur.user_id \notin DOMAIN cur.usersBefore

\* what an api_delete_image step may do to the Image rows and blobs
DeleteImageStep ==
    (pc = "idle" /\ cur'.flow = "delete_image") =>
        /\ \A r \in images : r \notin images' =>
              (r.id = cur'.p.image_id /\ r.user_id = cur'.p.actor)
        /\ \A r \in images :
              (r.id = cur'.p.image_id /\ r.user_id # cur'.p.actor) =>
                  /\ images' = images /\ blobs' = blobs
                  /\ (cur'.p.actor = NoUser \/ Len(trace') > 0) => resp' = Forbidden

\* C35: api_delete_image removes an Image row only for the actor that owns
\* it; for a missing or different actor the row and its blob stay and,
\* once the row was read, the response is forbidden
C35_DeleteImageOwnerOnly == [][DeleteImageStep]_vars

\* another identity asked for the deletion of a stored image and was refused
C35_Witness ==
    /\ pc = "done" /\ cur.flow = "delete_image" /\ resp = Forbidden
    /\ cur.p.actor # NoUser
    /\ \E r \in images : r.id = cur.p.image_id /\ r.user_id # cur.p.actor
                          /\ r.storage_path \in blobs

\* a step of api_detect_face or api_login_face leaves rows and blobs alone
ReadOnlyStep ==
    (pc = "idle" /\ cur'.flow \in {"detect", "login"}) =>
        (users' = users /\ images' = images /\ embeddings' = embeddings /\ blobs' = blobs)

\* C36: api_detect_face and api_login_face insert, update and delete no
\* Identity, Image or Embedding row and write no blob, whatever they answer
C36_ReadOnly == [][ReadOnlyStep]_vars

\* a login that matched, against rows and blobs that are as before
C36_Witness ==
    /\ pc = "done" /\ cur.flow = "login" /\ resp.ok
    /\ embeddings # {} /\ blobs # {}
    /\ users = cur.usersBefore /\ images = cur.imagesBefore /\ embeddings = cur.embBefore

\* the least distance from an encoding to the known encodings
LeastDistance(enc) ==
    CHOOSE d \in 0..MaxEnc :
        /\ \E i \in DOMAIN encode_list_known : Dist(encode_list_known[i], enc) = d
        /\ \A i \in DOMAIN encode_list_known : Dist(encode_list_known[i], enc) >= d

\* C37: for every face of a frame recognize_once reports the owner of a known
\* encoding at the least distance when that distance is at most
\* DIST_THRESHOLD and no identity otherwise; with no known encodings it
\* reports no identity
C37_AcceptanceRule ==
    \A i \in DOMAIN results :
        IF encode_list_known = <<>>
        THEN results[i].user_id = NoUser
        ELSE LET d == LeastDistance(results[i].enc)
             IN  /\ (results[i].user_id # NoUser) <=> (d <= DIST_THRESHOLD)
                 /\ results[i].user_id # NoUser =>
                       \E k \in DOMAIN encode_list_known :
                           /\ user_ids[k] = results[i].user_id
                           /\ Dist(encode_list_known[k], results[i].enc) = d

\* the update_attendance calls that have returned True, over the workers
RECURSIVE UpdatesReturned(_)
UpdatesReturned(n) == IF n = 0 THEN 0 ELSE checkers[n].updates + UpdatesReturned(n - 1)

\* C38: when no update_attendance call is under way, total_attendance of
\* the user has grown by the number of calls that returned True
C38_CountsEveryUpdate ==
    \A u \in KnownUsers :
        (\A w \in Workers : checkers[w].pc # "read") =>
            total_attendance[u] = UpdatesReturned(MaxWorkers)

\* C39: with deletions arriving during attach and capture requests, every
\* committed Image row and Embedding row belongs to an Identity row that exists
C39_NoDanglingRows ==
    /\ \A r \in images : r.user_id \in DOMAIN users
    /\ \A r \in embeddings : r.user_id \in DOMAIN users

====
